---- MODULE Spec2Model ----
(***************************************************************************)
(* Model of yamusic-to-spotify.py: transfer_playlists, the function that   *)
(* lists, selects and transfers Yandex Music playlists to Spotify.         *)
(*                                                                         *)
(* Text is modelled as a sequence of symbols and concatenated with \o.     *)
(* The two remote services are the environment: every answer they give    *)
(* (a list of playlists, a page of search results, a failure) is chosen    *)
(* with \E in the action that makes the call.                              *)
(***************************************************************************)
EXTENDS Integers, Sequences, FiniteSets, TLC

\* ------------------------------------------------------------------ bounds
\* playlists taken up plus tracks fetched in one run of transfer_playlists
MaxWork == 4
\* playlists the source account holds, and numbers entered at the selection:
\* as many as the run can take up with a track each
MaxPlaylists == MaxWork \div 2
\* candidates the destination's catalogue holds for one search
MaxPage == 2
\* longest URI list the chunking specification starts from
MaxChunkN == 250

\* ------------------------------------------------------- program constants
\* line 66
max_tracks_per_request == 100
\* limit=1 of the exact and the transliterated search, lines 110 and 116
ExactLimit == 1
\* limit=5 of the title-only search, line 129
BroadLimit == 5

None == "None"

\* ---------------------------------------------------------------- helpers
Min(a, b) == IF a < b THEN a ELSE b

RECURSIVE Flatten(_)
\* "".join(parts)
Flatten(parts) ==
    IF parts = <<>> THEN <<>> ELSE Head(parts) \o Flatten(Tail(parts))

\* seq[lo:hi] of Python, 0-based, hi exclusive and clipped to the length
Slice(seq, lo, hi) ==
    [k \in 1..(Min(hi, Len(seq)) - lo) |-> seq[lo + k]]

\* range(0, n, step) of Python
RangeStep(n, step) == {i \in 0..n : i < n /\ i % step = 0}

\* the k-th element, in increasing order, of a finite set of naturals
RECURSIVE SortedSeq(_)
SortedSeq(S) ==
    IF S = {} THEN <<>>
    ELSE LET m == CHOOSE x \in S : \A y \in S : x <= y
         IN <<m>> \o SortedSeq(S \ {m})

\* a mutation of Chunks: the slice is one element short
ChunksShortSlice(uris, size) ==
    LET starts == SortedSeq(RangeStep(Len(uris), size))
    IN [c \in 1..Len(starts) |-> Slice(uris, starts[c], starts[c] + size - 1)]

\* line 200: [track_uris[i:i+size] for i in range(0, len(track_uris), size)]
Chunks(uris, size) ==
    LET starts == SortedSeq(RangeStep(Len(uris), size))
    IN [c \in 1..Len(starts) |-> Slice(uris, starts[c], starts[c] + size)]

\* seq[j] of Python raises IndexError unless -len <= j < len
IndexOk(seq, j) == 0 - Len(seq) <= j /\ j < Len(seq)

\* seq[j] of Python for an integer j with IndexOk: negative j counts from
\* the end
PyIndex(seq, j) == IF 0 <= j THEN seq[j + 1] ELSE seq[Len(seq) + j + 1]

\* ------------------------------------------------------------------- text
\* A string is a sequence of symbols. The Cyrillic letters are the symbols
\* CYR_*; every other symbol is Latin text.
CyrToLat ==
    [c \in {"CYR_KA", "CYR_I", "CYR_EN", "CYR_O", "CYR_TSE"} |->
        CASE c = "CYR_KA" -> <<"K">>
          [] c = "CYR_I" -> <<"i">>
          [] c = "CYR_EN" -> <<"n">>
          [] c = "CYR_O" -> <<"o">>
          [] c = "CYR_TSE" -> <<"t", "s">>]

\* line 115: translit(artist_name, 'ru', reversed=True), Cyrillic to Latin;
\* symbols outside the table are kept
translit(text) ==
    Flatten([k \in 1..Len(text) |->
        IF text[k] \in DOMAIN CyrToLat THEN CyrToLat[text[k]] ELSE <<text[k]>>])

\* lines 110 and 116: f'{track_name} artist:{artist_name}'
ArtistQuery(title, artist) == title \o <<" artist:">> \o artist

\* a mutation of ReportLine: the artist is left out
ReportLineTitleOnly(song) == song[1] \o <<"\n">>

\* line 197: f"{song[0]} by {song[1]}\n"
ReportLine(song) == song[1] \o <<" by ">> \o song[2] \o <<"\n">>

\* ------------------------------------------------------- the source account
\* line 43: the pseudo-playlist of the liked songs
LikedPlaylist ==
    [title |-> <<"Liked Songs from Yandex">>, kind |-> None, uid |-> None]

\* the k-th playlist users_playlists_list() returns (line 45)
SourcePlaylist(k) ==
    [title |-> <<"Playlist">> \o [j \in 1..k |-> "'"], kind |-> k, uid |-> "u"]

\* the i-th track object of the playlist named owner (lines 79-84); shape is
\*   "ok"        a track with a title and at least one artist
\*   "noartists" a track whose artists list is empty (artists[0]: IndexError)
\*   "none"      no track object at all (track.track is None: AttributeError)
SourceTrack(owner, i, shape) ==
    [present |-> shape # "none",
     title |-> <<"Song">> \o [j \in 1..i |-> "'"] \o <<" of ">> \o owner,
     artists |-> IF shape # "ok" THEN <<>>
                 ELSE IF i % 2 = 1
                      THEN <<(<<"CYR_KA", "CYR_I", "CYR_EN", "CYR_O">>)>>
                      ELSE <<(<<"A", "B", "B", "A">>), (<<"CYR_TSE">>)>>]

TrackShapes == {"ok", "noartists", "none"}

\* ------------------------------------------------------ the destination
\* the c-th candidate the destination's catalogue holds for source track i
Uri(i, c) == [track |-> i, cand |-> c]

\* a page of k candidates for track i that follows `offset` earlier ones;
\* next is "absent" (the paging object has no 'next' key), None (the key is
\* there and null) or "url" (a further page exists)
Page(i, offset, k, next) ==
    [tracks |-> [items |-> [c \in 1..k |-> Uri(i, offset + c)],
                 next |-> next, offset |-> offset]]

NextShapes == {"absent", None, "url"}

\* no page: the value of search_result where the code holds none it will read
NoPage == Page(0, 0, 0, "absent")

\* ------------------------------------------------------------------ input
\* one-character symbols the user may type
Digits == <<"0", "1", "2", "3", "4", "5", "6", "7", "8", "9">>

DigitValue(c) == CHOOSE d \in 0..9 : Digits[d + 1] = c

\* a character that str.isdigit() accepts and int() does not: the
\* superscript two, U+00B2 (a digit, but no decimal digit)
SuperscriptTwo == "SUP2"

\* str.isdecimal(): decimal digits only, the characters int() reads
isdecimal(text) ==
    text # <<>> /\ \A k \in 1..Len(text) : \E d \in 1..10 : Digits[d] = text[k]

\* str.isdigit(): decimal digits and the other digit characters
isdigit(text) ==
    /\ text # <<>>
    /\ \A k \in 1..Len(text) :
        text[k] = SuperscriptTwo \/ \E d \in 1..10 : Digits[d] = text[k]

RECURSIVE int(_)
\* int(text) of a string of decimal digits
int(text) ==
    IF text = <<>> THEN 0
    ELSE 10 * int(SubSeq(text, 1, Len(text) - 1)) + DigitValue(text[Len(text)])

\* str.lower() on the letters the prompt reads
lower(text) ==
    [k \in 1..Len(text) |->
        CASE text[k] = "N" -> "n" [] text[k] = "S" -> "s" [] OTHER -> text[k]]

\* the answers tried at the resolver prompt (line 171)
Choices ==
    {<<Digits[d + 1]>> : d \in 0..(MaxPage + 1)}
        \cup {<<"0", "0">>, <<"0", "1">>, <<"n">>, <<"N">>, <<"s">>, <<"S">>,
              <<"x">>, <<SuperscriptTwo>>}

\* the comma-separated fields entered at the playlist selection (line 63):
\* the decimal numbers -MaxPlaylists-1 .. MaxPlaylists+1, and one field that
\* is no number
NumberText(n) == IF n < 0 THEN <<"-", Digits[1 - n]>> ELSE <<Digits[n + 1]>>

SelectionFields ==
    {NumberText(n) : n \in (0 - MaxPlaylists - 1)..(MaxPlaylists + 1)}
        \cup {<<"x">>}

Selections == UNION {[1..n -> SelectionFields] : n \in 1..MaxPlaylists}

\* int(field) raises ValueError unless the field is an optional sign and digits
IntOk(field) ==
    IF field # <<>> /\ Head(field) = "-" THEN isdecimal(Tail(field))
    ELSE isdecimal(field)

\* int(field) of Python for a field with IntOk
pyint(field) ==
    IF Head(field) = "-" THEN 0 - int(Tail(field)) ELSE int(field)

\* not_found_songs.log before the run: the file an earlier run left
PriorReport ==
    [written |-> FALSE,
     text |-> <<"Songs not found on Spotify:\n">> \o ReportLine(<<(<<"Old">>), (<<"Older">>)>>)]

\* --------------------------------------------------------------- the state
VARIABLES
    \* the arguments of transfer_playlists (line 36)
    list_only, select, liked,
    \* where the run stands: "start", "select", "fetch_tracks", "create",
    \* "exact", "translit", "broad", "prompt", "report", "add",
    \* "done" (returned) or "aborted" (left by an uncaught exception)
    pc,
    \* line 45 / 64: the playlists to transfer; plIdx: the one the loop of
    \* line 68 is at
    yandex_playlists, plIdx,
    \* line 63: the numbers entered at the selection
    selected_indices,
    \* titles printed by the listing (lines 55-56, 61-62)
    printed,
    \* lines 69-100: the locals of one playlist
    playlist_name, tracks, spotify_playlist_id,
    track_uris, not_found_songs, skip_all_not_found,
    \* lines 102-129: the locals of one track; trIdx: the one the loop is at
    trIdx, track_name, artist_name, search_result,
    \* line 171: the answer that ended the prompt of the track the loop took
    \* up last, or that the run broke off on; <<>> while there is none
    choice,
    \* line 202: the chunk the loop is at
    chunkIdx,
    \* the destination account: the playlists created, each with its items
    spotify,
    \* the file not_found_songs.log: its text, and whether this run wrote it
    report,
    \* logging.error calls made since the current playlist was taken up,
    \* each with the title and artist its message names
    errlog,
    \* the create and add-items calls and the report writes made since the
    \* current playlist was taken up
    calls,
    \* the searches, next-page requests and prompts made for the track the
    \* loop of line 102 took up last
    searches,
    \* what each playlist whose track loop has ended was resolved to: its
    \* name, its URI list and its unmatched list at line 192
    transferred,
    \* playlists taken up plus tracks fetched in this run
    nWork

vars ==
    <<list_only, select, liked, pc, yandex_playlists, plIdx,
      selected_indices, printed, playlist_name, tracks, spotify_playlist_id, track_uris,
      not_found_songs, skip_all_not_found, trIdx, track_name, artist_name,
      search_result, choice, chunkIdx, spotify, report, errlog, calls,
      searches, transferred, nWork>>

\* the locals of one playlist and of one track
playlistLocals ==
    <<playlist_name, tracks, spotify_playlist_id, track_uris, not_found_songs,
      skip_all_not_found, chunkIdx>>

trackLocals == <<trIdx, track_name, artist_name, search_result>>

\* lines 244-249 and 260-265: main calls transfer_playlists with exactly one
\* of list_only, select, liked set, and (lines 241-242) never without both
\* clients, so that the return of line 39 is never taken. The report file
\* is the one an earlier run left.
Init ==
    /\ \E m \in {"list", "select", "liked"} :
        /\ list_only = (m = "list")
        /\ select = (m = "select")
        /\ liked = (m = "liked")
    /\ pc = "start"
    /\ yandex_playlists = <<>>
    /\ plIdx = 0
    /\ selected_indices = <<>>
    /\ printed = <<>>
    /\ playlist_name = <<>>
    /\ tracks = <<>>
    /\ spotify_playlist_id = 0
    /\ track_uris = <<>>
    /\ not_found_songs = <<>>
    /\ skip_all_not_found = FALSE
    /\ trIdx = 0
    /\ track_name = <<>>
    /\ artist_name = <<>>
    /\ search_result = NoPage
    /\ choice = <<>>
    /\ chunkIdx = 0
    /\ spotify = <<>>
    /\ report = PriorReport
    /\ errlog = <<>>
    /\ calls = <<>>
    /\ searches = <<>>
    /\ transferred = <<>>
    /\ nWork = 0

\* a logging.error call: which handler made it, and the track title and
\* artist in its message (<<>> for the messages that name no track)
Logged(kind, song) == [kind |-> kind, song |-> song]

NoSong == <<(<<>>), (<<>>)>>

\* ------------------------------------------------------------ control flow
\* line 68: the for loop takes up the next playlist, or the function returns
PlaylistLoopPc(i, playlists) ==
    IF i < Len(playlists) THEN "fetch_tracks" ELSE "done"

\* a mutation of TrackLoopPc: after the last track the chunks are submitted
\* at once
TrackLoopPcSkipsReport(i, trks) == IF i < Len(trks) THEN "exact" ELSE "add"

\* line 102: the for loop takes up the next track, or goes on to line 192
TrackLoopPc(i, trks) == IF i < Len(trks) THEN "exact" ELSE "report"

\* line 202: the for loop takes up the next chunk, or the playlist is done
ChunkLoopPc(c, chunks, i, playlists) ==
    IF c < Len(chunks) THEN "add" ELSE PlaylistLoopPc(i, playlists)

\* a mutation of NextPlaylist: the function returns instead of going on
NextPlaylistReturns ==
    /\ pc' = "done"
    /\ plIdx' = plIdx

\* `continue` of lines 89 and 96, and the end of the body of the loop of
\* line 68: on to the next playlist
NextPlaylist ==
    /\ pc' = PlaylistLoopPc(plIdx, yandex_playlists)
    /\ plIdx' = IF plIdx < Len(yandex_playlists) THEN plIdx + 1 ELSE plIdx

\* `continue` of lines 119 and 122, and the end of the body of the loop of
\* line 102: on to the next track. The locals of the track are reset: the
\* next track assigns them (lines 103-110) before reading them, and nothing
\* after the loop reads them
NextTrack ==
    /\ pc' = TrackLoopPc(trIdx, tracks)
    /\ trIdx' = IF trIdx < Len(tracks) THEN trIdx + 1 ELSE trIdx
    /\ track_name' = <<>>
    /\ artist_name' = <<>>
    /\ search_result' = NoPage

\* ----------------------------------------------------------------- actions
\* lines 41-62: fetch the playlists of the source account; list them
FetchPlaylists ==
    /\ pc = "start"
    /\ \/ \* line 46: users_playlists_list() raises
          /\ ~liked
          /\ errlog' = Append(errlog, Logged("fetch_playlists", NoSong))
          /\ pc' = "done"
          /\ UNCHANGED <<yandex_playlists, plIdx, printed>>
       \/ \E n \in 0..MaxPlaylists :
            LET fetched == IF liked THEN <<LikedPlaylist>>
                           ELSE [k \in 1..n |-> SourcePlaylist(k)]
                titles == [k \in 1..Len(fetched) |-> fetched[k].title]
            IN /\ liked => n = 0
               /\ yandex_playlists' = fetched
               /\ UNCHANGED errlog
               /\ IF list_only
                  THEN \* lines 53-57
                       /\ printed' = titles
                       /\ pc' = "done"
                       /\ UNCHANGED plIdx
                  ELSE IF select
                  THEN \* lines 59-62
                       /\ printed' = titles
                       /\ pc' = "select"
                       /\ UNCHANGED plIdx
                  ELSE \* line 68
                       /\ printed' = printed
                       /\ pc' = PlaylistLoopPc(0, fetched)
                       /\ plIdx' = IF fetched # <<>> THEN 1 ELSE 0
    /\ UNCHANGED <<list_only, select, liked, selected_indices,
                   playlistLocals, trackLocals, choice, spotify, report, calls,
                   searches, transferred, nWork>>

\* the playlists the selection picks: yandex_playlists[i - 1] for each number
Selected(playlists, numbers) ==
    [k \in 1..Len(numbers) |-> PyIndex(playlists, numbers[k] - 1)]

\* lines 63-64: read the selection and pick the playlists
SelectPlaylists ==
    /\ pc = "select"
    /\ \E fields \in Selections :
        IF \E k \in 1..Len(fields) : ~IntOk(fields[k])
        THEN \* int() raises ValueError
             /\ pc' = "aborted"
             /\ UNCHANGED <<yandex_playlists, plIdx, selected_indices>>
        ELSE /\ selected_indices' = [k \in 1..Len(fields) |-> pyint(fields[k])]
             /\ IF \E k \in 1..Len(fields) :
                      ~IndexOk(yandex_playlists, pyint(fields[k]) - 1)
                THEN \* yandex_playlists[i - 1] raises IndexError
                     /\ pc' = "aborted"
                     /\ UNCHANGED <<yandex_playlists, plIdx>>
                ELSE /\ yandex_playlists' =
                            Selected(yandex_playlists, selected_indices')
                     /\ pc' = "fetch_tracks"
                     /\ plIdx' = 1
    /\ UNCHANGED <<list_only, select, liked, printed, playlistLocals,
                   trackLocals, choice, spotify, report, errlog, calls,
                   searches, transferred, nWork>>

\* lines 68-89: take up a playlist and fetch its tracks
FetchTracks ==
    /\ pc = "fetch_tracks"
    /\ nWork < MaxWork
    /\ selected_indices' = <<>>
    /\ playlist_name' = IF liked THEN <<"Liked Songs from Yandex">>
                        ELSE yandex_playlists[plIdx].title
    /\ calls' = <<>>
    /\ \/ \* line 87: the fetch raises
          /\ errlog' = <<Logged("fetch_tracks", NoSong)>>
          /\ NextPlaylist
          /\ nWork' = nWork + 1
          /\ UNCHANGED tracks
       \/ \E n \in 0..(MaxWork - nWork - 1) :
            /\ tracks' = [i \in 1..n |-> i]
            /\ nWork' = nWork + 1 + n
            /\ errlog' = <<>>
            /\ pc' = "create"
            /\ UNCHANGED plIdx
    /\ UNCHANGED <<list_only, select, liked, yandex_playlists, printed,
                   spotify_playlist_id, track_uris, not_found_songs,
                   skip_all_not_found, chunkIdx, trackLocals, choice, spotify,
                   report, searches, transferred>>

\* a mutation of FlagAtLoopStart: the flag of the playlist before is kept
FlagKept(old) == old

\* line 100: skip_all_not_found = False, before the track loop
FlagAtLoopStart(old) == FALSE

\* a mutation of CreatePlaylist: two destination playlists are created
CreatePlaylistTwice ==
    /\ pc = "create"
    /\ calls' = Append(calls, [op |-> "create", name |-> playlist_name])
    /\ \/ \* line 94: user_playlist_create (or me) raises SpotifyException
          /\ errlog' = Append(errlog, Logged("create", NoSong))
          /\ NextPlaylist
          /\ UNCHANGED <<spotify, spotify_playlist_id, track_uris,
                         not_found_songs, skip_all_not_found, trIdx>>
       \/ /\ spotify' = spotify \o
                <<[name |-> playlist_name, public |-> FALSE, items |-> <<>>],
                  [name |-> playlist_name, public |-> FALSE, items |-> <<>>]>>
          /\ spotify_playlist_id' = Len(spotify) + 2
          /\ track_uris' = <<>>
          /\ not_found_songs' = <<>>
          /\ skip_all_not_found' = FlagAtLoopStart(skip_all_not_found)
          /\ pc' = TrackLoopPc(0, tracks)
          /\ trIdx' = IF tracks # <<>> THEN 1 ELSE trIdx
          /\ UNCHANGED <<errlog, plIdx>>
    /\ UNCHANGED <<list_only, select, liked, yandex_playlists, printed,
                   selected_indices, playlist_name, tracks, chunkIdx,
                   track_name, artist_name, search_result, choice, report,
                   searches, transferred, nWork>>

\* lines 91-100: create the destination playlist
CreatePlaylist ==
    /\ pc = "create"
    /\ calls' = Append(calls, [op |-> "create", name |-> playlist_name])
    /\ \/ \* line 94: user_playlist_create (or me) raises SpotifyException
          /\ errlog' = Append(errlog, Logged("create", NoSong))
          /\ NextPlaylist
          /\ UNCHANGED <<spotify, spotify_playlist_id, track_uris,
                         not_found_songs, skip_all_not_found, trIdx>>
       \/ /\ spotify' = Append(spotify, [name |-> playlist_name,
                                          public |-> FALSE, items |-> <<>>])
          /\ spotify_playlist_id' = Len(spotify) + 1
          /\ track_uris' = <<>>
          /\ not_found_songs' = <<>>
          /\ skip_all_not_found' = FlagAtLoopStart(skip_all_not_found)
          /\ pc' = TrackLoopPc(0, tracks)
          /\ trIdx' = IF tracks # <<>> THEN 1 ELSE trIdx
          /\ UNCHANGED <<errlog, plIdx>>
    /\ UNCHANGED <<list_only, select, liked, yandex_playlists, printed,
                   selected_indices, playlist_name, tracks, chunkIdx,
                   track_name, artist_name, search_result, choice, report,
                   searches, transferred, nWork>>

\* a mutation of NeedsSecondPass: the transliterated search is always made
NeedsSecondPassAlways(result) == TRUE

\* line 113: the transliterated search is made when the exact one found nothing
NeedsSecondPass(result) == result.tracks.items = <<>>

\* line 124: the automatic passes found the track
Found(result) == result.tracks.items # <<>>

\* a mutation of AsksUser: the "skip all" answer is forgotten
AsksUserAlways(skip_all) == TRUE

\* line 127: the user is asked unless an earlier answer was "skip all"
AsksUser(skip_all) == ~skip_all

\* a mutation of AfterTrackError: the failed track is recorded as not found
AfterTrackErrorRecorded(uris, songs, song) ==
    [uris |-> uris, songs |-> Append(songs, song)]

\* lines 117-122: what a failed track leaves of the two lists: nothing is
\* recorded for it
AfterTrackError(uris, songs, song) == [uris |-> uris, songs |-> songs]

\* a mutation of Resolve: new entries are put at the head of the lists
ResolvePrepends(result, song) ==
    IF Found(result)
    THEN /\ track_uris' = <<result.tracks.items[1]>> \o track_uris
         /\ UNCHANGED not_found_songs
         /\ NextTrack
    ELSE IF AsksUser(skip_all_not_found)
    THEN /\ pc' = "broad"
         /\ search_result' = result
         /\ UNCHANGED <<track_uris, not_found_songs, trIdx, track_name,
                        artist_name>>
    ELSE /\ not_found_songs' = <<song>> \o not_found_songs
         /\ UNCHANGED track_uris
         /\ NextTrack

\* lines 124-127 and 189-190: the track after the automatic passes
Resolve(result, song) ==
    IF Found(result)
    THEN \* lines 125-126
         /\ track_uris' = Append(track_uris, result.tracks.items[1])
         /\ UNCHANGED not_found_songs
         /\ NextTrack
    ELSE IF AsksUser(skip_all_not_found)
    THEN \* line 129 is next
         /\ pc' = "broad"
         /\ search_result' = result
         /\ UNCHANGED <<track_uris, not_found_songs, trIdx, track_name,
                        artist_name>>
    ELSE \* line 190
         /\ not_found_songs' =
                Append(not_found_songs, song)
         /\ UNCHANGED track_uris
         /\ NextTrack

\* lines 117-122: a failure inside the try of line 105 is logged and the
\* loop goes on
TrackError(kind, song) ==
    LET left == AfterTrackError(track_uris, not_found_songs, song)
    IN /\ errlog' = Append(errlog, Logged(kind, song))
       /\ track_uris' = left.uris
       /\ not_found_songs' = left.songs
       /\ NextTrack

\* a search made for the track at hand; result is "failed" (the call
\* raised), "empty" or "found"
SearchCall(pass, query, limit, result) ==
    [op |-> "search", pass |-> pass, track |-> trIdx, query |-> query,
     limit |-> limit, result |-> result]

\* what a page of n candidates is logged as
Outcome(n) == IF n = 0 THEN "empty" ELSE "found"

\* lines 102-113 and 124-127: read the track's title and first artist and
\* make the exact search
ExactPass ==
    /\ pc = "exact"
    /\ choice' = <<>>
    /\ \E shape \in TrackShapes :
        LET track_short == SourceTrack(playlist_name, tracks[trIdx], shape)
            query == ArtistQuery(track_short.title, track_short.artists[1])
        IN IF ~track_short.present
           THEN \* line 106 raises AttributeError
                /\ TrackError("process", NoSong)
                /\ searches' = <<>>
           ELSE IF track_short.artists = <<>>
           THEN \* line 107 raises IndexError
                /\ TrackError("process", <<track_short.title, (<<>>)>>)
                /\ searches' = <<>>
           ELSE /\ \/ \* line 110 raises SpotifyException
                      /\ searches' = <<SearchCall("exact", query, ExactLimit, "failed")>>
                      /\ TrackError("search", <<track_short.title, track_short.artists[1]>>)
                   \/ \E n \in 0..Min(ExactLimit, MaxPage) :
                        LET result == Page(tracks[trIdx], 0, n, None)
                        IN /\ searches' = <<SearchCall("exact", query, ExactLimit, Outcome(n))>>
                           /\ UNCHANGED errlog
                           /\ IF NeedsSecondPass(result)
                              THEN /\ pc' = "translit"
                                   /\ track_name' = track_short.title
                                   /\ artist_name' = track_short.artists[1]
                                   /\ search_result' = result
                                   /\ UNCHANGED <<track_uris, not_found_songs, trIdx>>
                              ELSE Resolve(result, <<track_short.title, track_short.artists[1]>>)
    /\ UNCHANGED <<list_only, select, liked, yandex_playlists, plIdx,
                   selected_indices, printed, playlist_name, tracks,
                   spotify_playlist_id, skip_all_not_found, chunkIdx, spotify,
                   report, calls, transferred, nWork>>

\* lines 115-127: the search with the transliterated artist name
TranslitPass ==
    /\ pc = "translit"
    /\ LET artist_name_transliterated == translit(artist_name)
           query == ArtistQuery(track_name, artist_name_transliterated)
       IN \/ \* line 116 raises SpotifyException
             /\ searches' = Append(searches, SearchCall("translit", query, ExactLimit, "failed"))
             /\ TrackError("search", <<track_name, artist_name>>)
          \/ \E n \in 0..Min(ExactLimit, MaxPage) :
               /\ searches' = Append(searches, SearchCall("translit", query, ExactLimit, Outcome(n)))
               /\ UNCHANGED errlog
               /\ Resolve(Page(tracks[trIdx], 0, n, None), <<track_name, artist_name>>)
    /\ UNCHANGED <<list_only, select, liked, yandex_playlists, plIdx,
                   selected_indices, printed, playlist_name, tracks,
                   spotify_playlist_id, skip_all_not_found, chunkIdx, choice,
                   spotify, report, calls, transferred, nWork>>

\* a mutation of AfterBroadPc: a page without candidates is not asked about
AfterBroadPcIfCandidates(result) ==
    IF result.tracks.items # <<>> THEN "prompt" ELSE "exact"

\* lines 156-171: after the search by title the loop of line 156 shows the
\* page, or the notice of line 169 for an empty one, and asks at line 171
AfterBroadPc(result) == "prompt"

\* lines 129 and 157-169: the search by title alone; its page is shown
BroadPass ==
    /\ pc = "broad"
    /\ \/ \* line 129 raises SpotifyException: no handler encloses it
          /\ searches' = Append(searches, SearchCall("broad", track_name, BroadLimit, "failed"))
          /\ pc' = "aborted"
          /\ UNCHANGED search_result
       \/ \E n \in 0..Min(BroadLimit, MaxPage), next \in NextShapes :
            /\ searches' = Append(searches, SearchCall("broad", track_name, BroadLimit, Outcome(n)))
            /\ search_result' = Page(tracks[trIdx], 0, n, next)
            /\ pc' = AfterBroadPc(search_result')
    /\ UNCHANGED <<list_only, select, liked, yandex_playlists, plIdx,
                   selected_indices, printed, playlistLocals, trIdx,
                   track_name, artist_name, choice, spotify, report, errlog,
                   calls, transferred, nWork>>

\* line 172: the answer picks a candidate of the page shown (int(choice)
\* is read here only where it does not raise)
PicksCandidate(answer, items) ==
    /\ isdigit(answer) /\ IntOk(answer)
    /\ 0 < int(answer) /\ int(answer) <= Len(items)

\* lines 172-173: what picking a candidate leaves of the URI list: the loop
\* is left and nothing is appended
AfterPick(uris, items, answer) == uris

\* the candidates shown up to and including this page
Shown(result) == result.tracks.offset + Len(result.tracks.items)

\* line 178: 'next' in search_result['tracks']
HasNextKey(result) == result.tracks.next # "absent"

\* line 179 and then line 158: spotify_client.next(search_result['tracks'])
\* requests the page the 'next' field names; for a null field it returns
\* None without a request, and line 158 then raises TypeError
NextPage ==
    IF search_result.tracks.next = None
    THEN /\ pc' = "aborted"
         /\ UNCHANGED <<search_result, searches>>
    ELSE /\ Shown(search_result) < MaxPage
         /\ \/ \* the request raises SpotifyException: no handler
               /\ searches' = Append(searches, [op |-> "next", track |-> trIdx,
                                                result |-> "failed"])
               /\ pc' = "aborted"
               /\ UNCHANGED search_result
            \/ \E n \in 1..Min(BroadLimit, MaxPage - Shown(search_result)),
                  next \in NextShapes :
                 /\ searches' = Append(searches, [op |-> "next", track |-> trIdx,
                                                  result |-> Outcome(n)])
                 /\ search_result' = Page(tracks[trIdx], Shown(search_result), n, next)
                 /\ pc' = "prompt"

\* lines 171-187: one answer at the prompt. A further page is asked for only
\* while the catalogue has candidates left to show
Prompt ==
    /\ pc = "prompt"
    /\ \E answer \in Choices :
        LET items == search_result.tracks.items
            song == <<track_name, artist_name>>
        IN IF isdigit(answer) /\ ~IntOk(answer)
           THEN \* line 172: int(choice) raises ValueError: no handler
                /\ pc' = "aborted"
                /\ choice' = answer
                /\ UNCHANGED <<track_uris, not_found_songs,
                               skip_all_not_found, trIdx, track_name,
                               artist_name, search_result, searches>>
           ELSE IF PicksCandidate(answer, items)
           THEN \* lines 172-173
                /\ track_uris' = AfterPick(track_uris, items, answer)
                /\ choice' = answer
                /\ NextTrack
                /\ UNCHANGED <<not_found_songs, skip_all_not_found, searches>>
           ELSE IF answer = <<"0">>
           THEN \* lines 174-176
                /\ not_found_songs' = Append(not_found_songs, song)
                /\ choice' = answer
                /\ NextTrack
                /\ UNCHANGED <<track_uris, skip_all_not_found, searches>>
           ELSE IF lower(answer) = <<"n">>
           THEN \* lines 177-181
                /\ IF HasNextKey(search_result)
                   THEN NextPage
                   ELSE UNCHANGED <<pc, search_result, searches>>
                /\ choice' = IF pc' = "aborted" THEN answer ELSE <<>>
                /\ UNCHANGED <<track_uris, not_found_songs,
                               skip_all_not_found, trIdx, track_name,
                               artist_name>>
           ELSE IF lower(answer) = <<"s">>
           THEN \* lines 182-185
                /\ skip_all_not_found' = TRUE
                /\ not_found_songs' = Append(not_found_songs, song)
                /\ choice' = answer
                /\ NextTrack
                /\ UNCHANGED <<track_uris, searches>>
           ELSE \* lines 186-187
                /\ choice' = <<>>
                /\ UNCHANGED <<pc, track_uris, not_found_songs,
                               skip_all_not_found, trIdx, track_name,
                               artist_name, search_result, searches>>
    /\ UNCHANGED <<list_only, select, liked, yandex_playlists, plIdx,
                   selected_indices, printed, playlist_name, tracks,
                   spotify_playlist_id, chunkIdx, spotify, report, errlog,
                   calls, transferred, nWork>>

\* a mutation of ReportText: the file is opened for appending
ReportTextAppended(old, songs) ==
    old \o <<"Songs not found on Spotify:\n">>
        \o Flatten([k \in 1..Len(songs) |-> ReportLine(songs[k])])

\* lines 194-197: the text the file holds after it is opened with 'w' and
\* the header and one line per song are written
ReportText(old, songs) ==
    <<"Songs not found on Spotify:\n">>
        \o Flatten([k \in 1..Len(songs) |-> ReportLine(songs[k])])

\* lines 192-200: write the report of this playlist and chunk its URIs
WriteReport ==
    /\ pc = "report"
    /\ searches' = <<>>
    /\ choice' = <<>>
    /\ transferred' = Append(transferred, [name |-> playlist_name,
                                            trackUris |-> track_uris,
                                            unmatched |-> not_found_songs])
    /\ IF not_found_songs # <<>>
       THEN /\ report' = [written |-> TRUE,
                          text |-> ReportText(report.text, not_found_songs)]
            /\ calls' = Append(calls, [op |-> "report"])
       ELSE UNCHANGED <<report, calls>>
    /\ LET chunked_track_uris == Chunks(track_uris, max_tracks_per_request)
       IN IF chunked_track_uris # <<>>
          THEN /\ pc' = "add"
               /\ chunkIdx' = 1
               /\ UNCHANGED plIdx
          ELSE /\ NextPlaylist
               /\ UNCHANGED chunkIdx
    /\ UNCHANGED <<list_only, select, liked, yandex_playlists,
                   selected_indices, printed, playlist_name, tracks,
                   spotify_playlist_id, track_uris, not_found_songs,
                   skip_all_not_found, trackLocals, spotify, errlog, nWork>>

\* a mutation of AfterAddFailure: the chunks applied before are rolled back
AfterAddFailureRolledBack(items) == <<>>

\* lines 205-206: what a failed add-items call leaves of the destination
\* playlist: the error is logged and nothing else is done
AfterAddFailure(items) == items

\* lines 202-206: submit one chunk
AddItems ==
    /\ pc = "add"
    /\ LET chunked_track_uris == Chunks(track_uris, max_tracks_per_request)
           chunked_track_uri == chunked_track_uris[chunkIdx]
       IN /\ \/ \* line 205: playlist_add_items raises SpotifyException
                /\ calls' = Append(calls, [op |-> "add", uris |-> chunked_track_uri,
                                           ok |-> FALSE])
                /\ errlog' = Append(errlog, Logged("add_items", NoSong))
                /\ spotify' = [spotify EXCEPT ![spotify_playlist_id].items =
                                   AfterAddFailure(@)]
             \/ /\ calls' = Append(calls, [op |-> "add", uris |-> chunked_track_uri,
                                           ok |-> TRUE])
                /\ spotify' = [spotify EXCEPT ![spotify_playlist_id].items =
                                   @ \o chunked_track_uri]
                /\ UNCHANGED errlog
          /\ IF chunkIdx < Len(chunked_track_uris)
             THEN /\ chunkIdx' = chunkIdx + 1
                  /\ UNCHANGED <<pc, plIdx>>
             ELSE /\ NextPlaylist
                  /\ UNCHANGED chunkIdx
    /\ UNCHANGED <<list_only, select, liked, yandex_playlists,
                   selected_indices, printed, playlist_name, tracks,
                   spotify_playlist_id, track_uris, not_found_songs,
                   skip_all_not_found, trackLocals, choice, report, searches,
                   transferred, nWork>>

Next ==
    \/ FetchPlaylists
    \/ SelectPlaylists
    \/ FetchTracks
    \/ CreatePlaylist
    \/ ExactPass
    \/ TranslitPass
    \/ BroadPass
    \/ Prompt
    \/ WriteReport
    \/ AddItems

Spec == Init /\ [][Next]_vars

\* ------------------------------------------------- the chunking, on its own
\* The state at line 192 of a run that exports the liked songs, after each
\* of the n tracks was found by the exact search: n resolved URIs
InitChunk ==
    /\ list_only = FALSE
    /\ select = FALSE
    /\ liked = TRUE
    /\ pc = "report"
    /\ yandex_playlists = <<LikedPlaylist>>
    /\ plIdx = 1
    /\ selected_indices = <<>>
    /\ printed = <<>>
    /\ playlist_name = LikedPlaylist.title
    /\ \E n \in 0..MaxChunkN :
        /\ tracks = [i \in 1..n |-> i]
        /\ track_uris = [i \in 1..n |-> Uri(i, 1)]
        /\ trIdx = n
        /\ nWork = n + 1
    /\ spotify_playlist_id = 1
    /\ not_found_songs = <<>>
    /\ skip_all_not_found = FALSE
    /\ track_name = <<>>
    /\ artist_name = <<>>
    /\ search_result = NoPage
    /\ choice = <<>>
    /\ chunkIdx = 0
    /\ spotify = <<[name |-> LikedPlaylist.title, public |-> FALSE,
                    items |-> <<>>]>>
    /\ report = PriorReport
    /\ errlog = <<>>
    /\ calls = <<[op |-> "create", name |-> LikedPlaylist.title]>>
    /\ searches =
        IF trIdx = 0 THEN <<>>
        ELSE LET t == SourceTrack(LikedPlaylist.title, trIdx, "ok")
             IN <<SearchCall("exact", ArtistQuery(t.title, t.artists[1]),
                             ExactLimit, "found")>>
    /\ transferred = <<>>

NextChunk ==
    \/ WriteReport
    \/ AddItems

SpecChunk == InitChunk /\ [][NextChunk]_vars

\* ------------------------------------------------------------------ claims
\* the per-track errors logged for the current playlist (lines 118 and 121)
IsTrackError(e) == e.kind \in {"search", "process"}

TrackErrors == SelectSeq(errlog, IsTrackError)

IsAdd(c) == c.op = "add"

\* the add-items calls made for the current playlist, and the URIs they carried
AddCalls == SelectSeq(calls, IsAdd)

Submitted == Flatten([k \in 1..Len(AddCalls) |-> AddCalls[k].uris])

\* the title and first artist of the i-th track of the current playlist
SongOf(i) ==
    <<SourceTrack(playlist_name, i, "ok").title,
      SourceTrack(playlist_name, i, "ok").artists[1]>>

InSeq(x, seq) == \E k \in 1..Len(seq) : seq[k] = x

Last(seq) == seq[Len(seq)]

\* C1: when the track loop of a playlist has ended, the URIs collected plus
\* the entries recorded as unmatched number the playlist's tracks minus the
\* tracks for which a per-track error was logged.
C1_EveryTrackAccounted ==
    pc = "report" =>
        Len(track_uris) + Len(not_found_songs) = Len(tracks) - Len(TrackErrors)

\* C2: an answer that is a 1-based index into the page shown resolves the
\* track to the URI of that candidate: the URI is appended to the list that
\* is submitted later.
C2_PickAddsUri ==
    [][(pc = "prompt" /\ choice' # <<>>
            /\ PicksCandidate(choice', search_result.tracks.items))
        => track_uris' = Append(track_uris,
                                search_result.tracks.items[int(choice')])]_vars

\* C3: N resolved URIs go out in ceil(N/100) add-items calls, none for
\* N = 0, each of at most 100 URIs, in order: the chunks submitted so far
\* are a prefix of the URI list, and once the playlist is done they are the
\* whole list.
C3_Chunking ==
    /\ \A k \in 1..Len(AddCalls) : Len(AddCalls[k].uris) <= 100
    /\ Len(Submitted) <= Len(track_uris)
    /\ Submitted = SubSeq(track_uris, 1, Len(Submitted))
    /\ pc = "report" => AddCalls = <<>>
    /\ pc = "done" =>
        /\ Len(AddCalls) = (Len(track_uris) + 99) \div 100
        /\ Submitted = track_uris

\* C3, its case: 250 URIs went out in three calls of 100, 100 and 50
C3_Witness ==
    /\ pc = "done"
    /\ Len(track_uris) = 250
    /\ Len(AddCalls) = 3
    /\ Len(AddCalls[1].uris) = 100
    /\ Len(AddCalls[2].uris) = 100
    /\ Len(AddCalls[3].uris) = 50

\* C4: the searches made for a track are the exact one, then the
\* transliterated one, then the title-only one with limit 5, each made only
\* after the one before returned nothing; a pass that finds something ends
\* the searches for the track and its first item is the match.
C4_PassOrder ==
    LET s == searches
        song == SongOf(s[1].track)
    IN /\ s # <<>> =>
            /\ s[1].op = "search" /\ s[1].pass = "exact"
            /\ s[1].limit = 1
            /\ s[1].query = ArtistQuery(song[1], song[2])
       /\ \A k \in 2..Len(s) :
            IF s[k].op = "search"
            THEN \/ /\ s[k].pass = "translit" /\ k = 2
                    /\ s[1].result = "empty"
                    /\ s[k].limit = 1
                    /\ s[k].query = ArtistQuery(song[1], translit(song[2]))
                 \/ /\ s[k].pass = "broad" /\ k = 3
                    /\ s[2].op = "search" /\ s[2].pass = "translit"
                    /\ s[2].result = "empty"
                    /\ s[k].limit = 5
                    /\ s[k].query = song[1]
            ELSE s[k].op = "next" /\ k >= 4
       /\ \A k \in 1..Min(2, Len(s)) :
            s[k].result = "found" =>
                /\ Len(s) = k
                /\ track_uris # <<>>
                /\ Last(track_uris) = Uri(s[k].track, 1)
       /\ pc = "translit" => Len(s) = 1 /\ s[1].result = "empty"
       /\ pc = "broad" => Len(s) = 2 /\ s[2].result = "empty"
       /\ pc = "prompt" => Len(s) >= 3

\* C4, its case: all three passes were made for a track, in order
C4_Witness ==
    /\ pc = "prompt"
    /\ Len(searches) = 3
    /\ searches[1].result = "empty"
    /\ searches[2].result = "empty"
    /\ searches[3].pass = "broad"

SkipAnswers == {<<"s">>, <<"S">>}

\* what holds in every state once "skip all" has been answered
SkipAllHolds ==
    /\ skip_all_not_found => pc \notin {"broad", "prompt"}
    /\ choice \in SkipAnswers =>
        /\ skip_all_not_found
        /\ not_found_songs # <<>>
        /\ Last(not_found_songs) = SongOf(searches[1].track)
    /\ (skip_all_not_found /\ Len(searches) = 2
            /\ searches[2].result = "empty") =>
        /\ not_found_songs # <<>>
        /\ Last(not_found_songs) = SongOf(searches[1].track)
    /\ (skip_all_not_found /\ searches # <<>>
            /\ Len(searches) <= 2 /\ Last(searches).result = "found") =>
        /\ track_uris # <<>>
        /\ Last(track_uris) = Uri(searches[1].track, 1)

\* C5: after the answer S or s, that track is recorded as unmatched, and for
\* the rest of the playlist no title-only search and no prompt is made: a
\* later track that neither automatic pass finds is recorded as unmatched,
\* one that a pass finds is still added. The flag falls only when the next
\* playlist is set up.
C5_SkipAll ==
    /\ []SkipAllHolds
    /\ [][(skip_all_not_found /\ ~skip_all_not_found') => pc = "create"]_vars

\* C5, its case: S was answered and a later track of the playlist, found by
\* neither pass, was recorded without a prompt
C5_Witness ==
    /\ pc = "report"
    /\ skip_all_not_found
    /\ Len(not_found_songs) >= 2
    /\ Len(searches) = 2
    /\ searches[2].result = "empty"

\* text holds line as a contiguous run of pieces
Contains(text, line) ==
    \E k \in 0..(Len(text) - Len(line)) :
        SubSeq(text, k + 1, k + Len(line)) = line

\* the playlists whose track loop ended with unmatched entries
WithUnmatched == {p \in 1..Len(transferred) : transferred[p].unmatched # <<>>}

\* C6 as stated: when the run has ended, the report holds the entry of every
\* track recorded as unmatched in any playlist of the run.
C6_ReportAggregatesRun ==
    pc = "done" =>
        \A p \in 1..Len(transferred) :
            \A k \in 1..Len(transferred[p].unmatched) :
                Contains(report.text, ReportLine(transferred[p].unmatched[k]))

\* C6 amended: the report is rewritten at the end of the track loop of each
\* playlist that has unmatched entries, replacing what it held; so it holds
\* exactly the entries of the last such playlist, and is untouched while no
\* playlist had any.
C6_ReportIsLastPlaylists ==
    IF WithUnmatched = {}
    THEN report = PriorReport
    ELSE LET last == CHOOSE p \in WithUnmatched :
                        \A q \in WithUnmatched : q <= p
             songs == transferred[last].unmatched
         IN /\ report.written
            /\ report.text =
                <<"Songs not found on Spotify:\n">>
                    \o Flatten([k \in 1..Len(songs) |-> ReportLine(songs[k])])

\* C6, its case: a run that ended after two playlists, each with unmatched
\* entries of its own
C6_Witness ==
    /\ pc = "done"
    /\ Len(transferred) = 2
    /\ transferred[1].unmatched # <<>>
    /\ transferred[2].unmatched # <<>>
    /\ transferred[1].unmatched # transferred[2].unmatched

\* C7 as stated: a selection holding a number outside 1..(playlists listed)
\* ends the run with an error before any playlist is processed.
C7_OutOfRangeFails ==
    (\E k \in 1..Len(selected_indices) :
        selected_indices[k] \notin 1..Len(printed)) => pc = "aborted"

\* C8 as stated: a search request that fails, in whichever pass or page,
\* ends the processing of that track only, and the run goes on.
C8_SearchFailureIsLocal ==
    (\E k \in 1..Len(searches) : searches[k].result = "failed")
        => pc # "aborted"

\* C9 as stated: a track whose processing ended in an error is recorded among
\* the playlist's unmatched entries.
C9_ErrorIsUnmatched ==
    pc = "report" =>
        \A k \in 1..Len(TrackErrors) :
            InSeq(TrackErrors[k].song, not_found_songs)

\* C9 amended: a track whose processing ends in an error caught by the track
\* loop (malformed metadata, a failed exact or transliterated search) is
\* logged and nothing else: neither a URI nor an unmatched entry is recorded
\* for it, and the loop goes on with the next track.
C9_ErrorIsLoggedOnly ==
    [][Len(TrackErrors') > Len(TrackErrors) =>
        /\ Len(TrackErrors') = Len(TrackErrors) + 1
        /\ track_uris' = track_uris
        /\ not_found_songs' = not_found_songs
        /\ IF trIdx < Len(tracks)
           THEN pc' = "exact" /\ trIdx' = trIdx + 1
           ELSE pc' = "report"]_vars

\* C9, its case: the first track failed, the second was then processed and
\* matched, and only the second is in either list
C9_Witness ==
    /\ pc = "report"
    /\ Len(tracks) = 2
    /\ Len(TrackErrors) = 1
    /\ track_uris = <<Uri(2, 1)>>
    /\ not_found_songs = <<>>

\* C10: when fetching a playlist's tracks or creating its destination fails,
\* that playlist is given up (no search, no add-items, no destination
\* playlist for it) and the loop goes on with the next selected playlist.
C10_PlaylistFailureIsLocal ==
    (errlog # <<>> /\ errlog[1].kind \in {"fetch_tracks", "create"}) =>
        /\ Len(errlog) = 1
        /\ searches = <<>>
        /\ AddCalls = <<>>
        /\ calls = IF errlog[1].kind = "fetch_tracks" THEN <<>>
                   ELSE <<[op |-> "create", name |-> playlist_name]>>
        /\ Len(spotify) = Len(transferred)
        /\ \/ pc = "fetch_tracks" /\ plIdx \in 2..Len(yandex_playlists)
           \/ pc = "done" /\ plIdx = Len(yandex_playlists)

\* C10, its case: the first playlist was given up and the second is being
\* transferred
C10_Witness ==
    /\ pc = "report"
    /\ plIdx = 2
    /\ transferred = <<>>
    /\ Len(spotify) = 1
    /\ tracks # <<>>

\* the add-items calls of the current playlist that succeeded
IsApplied(c) == c.op = "add" /\ c.ok

AppliedCalls == SelectSeq(calls, IsApplied)

IsAddError(e) == e.kind = "add_items"

\* C11: whether or not earlier add-items calls failed, the k-th call carries
\* the k-th hundred of the collected URIs, the destination playlist holds
\* the chunks of the calls that succeeded, each failure is logged, and the
\* last chunk is reached: a failure ends neither the playlist nor the run.
C11_ChunkFailureIsLocal ==
    /\ \A k \in 1..Len(AddCalls) :
        AddCalls[k].uris =
            SubSeq(track_uris, 100 * (k - 1) + 1, Min(100 * k, Len(track_uris)))
    /\ spotify[spotify_playlist_id].items =
        Flatten([k \in 1..Len(AppliedCalls) |-> AppliedCalls[k].uris])
    /\ Len(SelectSeq(errlog, IsAddError)) = Len(AddCalls) - Len(AppliedCalls)
    /\ pc # "aborted"
    /\ pc = "add" => chunkIdx = Len(AddCalls) + 1
    /\ pc = "done" => Len(AddCalls) * 100 >= Len(track_uris)

\* C11, its case: of three chunks the second failed; the first stays applied
\* and the third was submitted and applied
C11_Witness ==
    /\ pc = "done"
    /\ Len(AddCalls) = 3
    /\ AddCalls[1].ok /\ ~AddCalls[2].ok /\ AddCalls[3].ok
    /\ spotify[spotify_playlist_id].items = AddCalls[1].uris \o AddCalls[3].uris
    /\ Len(spotify[spotify_playlist_id].items) = 150

\* uris, the URIs collected for a playlist, name the tracks in source order
UrisInSourceOrder(uris) ==
    \A j, k \in 1..Len(uris) : j < k => uris[j].track < uris[k].track

\* songs, the unmatched entries of the playlist called name with n tracks,
\* are tracks of that playlist in source order
SongsInSourceOrder(name, n, songs) ==
    \E idx \in [1..Len(songs) -> 1..n] :
        /\ \A k \in 1..Len(songs) :
            songs[k] = <<SourceTrack(name, idx[k], "ok").title,
                         SourceTrack(name, idx[k], "ok").artists[1]>>
        /\ \A j, k \in 1..Len(songs) : j < k => idx[j] < idx[k]

\* C12: the URI list of a playlist names matched tracks in their source
\* order, and its unmatched list holds unmatched or skipped tracks in their
\* source order; so it is during the track loop and in every outcome.
C12_SourceOrderKept ==
    /\ pc \in {"exact", "translit", "broad", "prompt", "report", "add"} =>
        /\ UrisInSourceOrder(track_uris)
        /\ SongsInSourceOrder(playlist_name, Len(tracks), not_found_songs)
        /\ \A k \in 1..Len(track_uris) : track_uris[k].track <= trIdx
    /\ \A p \in 1..Len(transferred) :
        /\ UrisInSourceOrder(transferred[p].trackUris)
        /\ SongsInSourceOrder(transferred[p].name, MaxWork,
                              transferred[p].unmatched)

\* C12, its case: of three tracks the first and the third were matched and
\* the second was not
C12_Witness ==
    /\ pc = "report"
    /\ track_uris = <<Uri(1, 1), Uri(3, 1)>>
    /\ not_found_songs = <<SongOf(2)>>

IsCreate(c) == c.op = "create"

\* a destination playlist exists for the playlist at hand and its outcome is
\* not yet returned
InTransfer ==
    \/ pc \in {"exact", "translit", "broad", "prompt", "report"}
    \/ pc = "aborted" /\ calls # <<>>

\* what holds of the destination account in every state
DestinationFrame ==
    /\ list_only =>
        /\ spotify = <<>> /\ calls = <<>> /\ searches = <<>>
        /\ report = PriorReport /\ transferred = <<>>
        /\ pc \in {"start", "done"}
    /\ Len(SelectSeq(calls, IsCreate)) <= 1
    /\ calls # <<>> => IsCreate(calls[1]) /\ calls[1].name = playlist_name
    /\ Len(spotify) = Len(transferred) + (IF InTransfer THEN 1 ELSE 0)

\* a step that changes the destination account either creates one private,
\* empty playlist named after the source playlist, at line 94, or extends
\* the items of the playlist created last
DestinationStep ==
    spotify' # spotify =>
        \/ /\ pc = "create"
           /\ spotify' = Append(spotify, [name |-> playlist_name,
                                          public |-> FALSE, items |-> <<>>])
           /\ Len(SelectSeq(calls', IsCreate)) = 1
        \/ /\ pc = "add"
           /\ spotify_playlist_id = Len(spotify)
           /\ Len(spotify') = Len(spotify)
           /\ \A k \in 1..Len(spotify) :
                IF k = spotify_playlist_id
                THEN /\ spotify'[k].name = spotify[k].name
                     /\ Len(spotify'[k].items) > Len(spotify[k].items)
                     /\ SubSeq(spotify'[k].items, 1, Len(spotify[k].items))
                            = spotify[k].items
                ELSE spotify'[k] = spotify[k]

\* C13: in list mode nothing is created, searched, added or written; in
\* transfer mode one create call is made per playlist whose tracks were
\* fetched, one destination playlist exists per playlist that got past it,
\* and nothing is ever removed from, or written to, a playlist other than
\* the one created for the playlist at hand.
C13_DestinationFrame == []DestinationFrame /\ [][DestinationStep]_vars

\* C13, its case in list mode: the playlists were listed
C13_WitnessList ==
    list_only /\ pc = "done" /\ Len(printed) = MaxPlaylists

\* C13, its case in transfer mode: two playlists transferred, two created,
\* and the first one holds what its own transfer added
C13_Witness ==
    /\ pc = "done"
    /\ Len(transferred) = 2
    /\ Len(spotify) = 2
    /\ spotify[1].items # <<>>
    /\ spotify[1].items = transferred[1].trackUris

\* the text of a report of songs: the header, then "<title> by <artist>"
\* and a line end for each song, in order
ExpectedReport(songs) ==
    <<"Songs not found on Spotify:\n">>
        \o Flatten([k \in 1..Len(songs) |->
                        songs[k][1] \o <<" by ">> \o songs[k][2] \o <<"\n">>])

\* the step that ends a playlist's track loop writes the report, or leaves
\* it alone when nothing is unmatched; no other step touches the report
ReportStep ==
    /\ pc = "report" =>
        IF not_found_songs # <<>>
        THEN /\ report'.written
             /\ report'.text = ExpectedReport(not_found_songs)
        ELSE report' = report
    /\ report' # report => pc = "report"

\* a track skipped with the answer 0 is one entry of the unmatched list
SkippedOnce ==
    choice = <<"0">> =>
        /\ pc \in {"exact", "report"}
        /\ Cardinality({k \in 1..Len(not_found_songs) :
                not_found_songs[k] = SongOf(searches[1].track)}) = 1

\* C14: at the end of a playlist's track loop with unmatched entries the
\* report becomes the header followed by one line "<title> by <artist>" per
\* entry, in order, whatever it held before; a track skipped with 0 is one
\* entry; with no unmatched entry the report is left as it was.
C14_ReportOfPlaylist == []SkippedOnce /\ [][ReportStep]_vars

\* C14, its case: a playlist with two unmatched tracks, the second skipped
\* with 0, is about to be reported
C14_WitnessSkipped ==
    pc = "report" /\ choice = <<"0">> /\ Len(not_found_songs) = 2

\* C14, its case: the report of a playlist with two unmatched tracks was
\* written over the earlier content
C14_Witness ==
    /\ report.written
    /\ Len(transferred) = 1
    /\ Len(transferred[1].unmatched) = 2
    /\ report.text = ExpectedReport(transferred[1].unmatched)
    /\ ~Contains(report.text, <<"Old", " by ", "Older", "\n">>)

\* how the flag moves in one step
SkipFlagStep ==
    /\ (pc = "create" /\ pc' \in {"exact", "report"}) => ~skip_all_not_found'
    /\ (~skip_all_not_found /\ skip_all_not_found') =>
        pc = "prompt" /\ choice' \in SkipAnswers
    /\ (skip_all_not_found /\ ~skip_all_not_found') => pc = "create"
    /\ (pc = "prompt" /\ choice' = <<"0">>) => ~skip_all_not_found'

\* with the flag down, a track that neither automatic pass found goes on to
\* the title-only search and the prompt
AsksAgain ==
    (~skip_all_not_found /\ Len(searches) = 2 /\ searches[2].result = "empty")
        => pc = "broad"

\* C15: the flag is down when a playlist's track loop starts, whatever it
\* was in the playlist before; inside the loop it goes up only on the answer
\* S or s and never comes down; the answer 0 leaves it down, and the next
\* track found by neither pass is asked about again.
C15_SkipFlagScope == []AsksAgain /\ [][SkipFlagStep]_vars

\* C15, its case: the first track was skipped with 0 (with the flag down
\* nothing else records an unmatched entry) and the second is asked about
C15_Witness ==
    /\ pc = "prompt"
    /\ trIdx = 2
    /\ ~skip_all_not_found
    /\ Len(not_found_songs) = 1

\* C15, its other case: the next playlist is set up while the flag of the
\* playlist before is still up
C15_WitnessNextPlaylist == pc = "create" /\ skip_all_not_found /\ plIdx = 2

\* C16 as stated: the prompt is entered only for a track whose title-only
\* search returned candidates.
C16_PromptNeedsCandidates ==
    pc = "prompt" =>
        /\ Len(searches) >= 3
        /\ searches[3].result = "found"
        /\ search_result.tracks.items # <<>>

\* the prompt is only ever shown for a track that neither automatic pass
\* found, with the flag down, after the title-only search has returned
PromptedAfterBroad ==
    pc = "prompt" =>
        /\ ~skip_all_not_found
        /\ Len(searches) >= 3
        /\ searches[1].result = "empty"
        /\ searches[2].result = "empty"
        /\ searches[3].op = "search" /\ searches[3].pass = "broad"
        /\ searches[3].result \in {"empty", "found"}

\* C16 amended: the prompt is entered for every track that neither automatic
\* pass found while the flag is down, once the title-only search has
\* returned, whether or not it returned candidates; with none, the notice
\* takes the place of the list and the prompt follows all the same.
C16_PromptAfterBroad ==
    /\ []PromptedAfterBroad
    /\ [][(pc = "broad" /\ Last(searches').result # "failed")
            => /\ pc' = "prompt"
               /\ Last(searches').result = "empty"
                    <=> search_result'.tracks.items = <<>>]_vars

\* C16, its case: the title-only search returned nothing and the prompt is up
C16_Witness ==
    /\ pc = "prompt"
    /\ Len(searches) = 3
    /\ searches[3].result = "empty"
    /\ search_result.tracks.items = <<>>

\* the answer is none of: a number of a candidate of the page, 0, n or N,
\* s or S
InvalidAnswer(answer, items) ==
    /\ ~PicksCandidate(answer, items)
    /\ answer # <<"0">>
    /\ lower(answer) \notin {<<"n">>, <<"s">>}

\* C17 as stated: an invalid answer leaves the run at the prompt of the same
\* track, with the URIs, the unmatched entries, the flag and the page as
\* they were.
C17_InvalidAnswerReprompts ==
    [][(pc = "prompt" /\ choice' # <<>>
            /\ InvalidAnswer(choice', search_result.tracks.items))
        => /\ pc' = "prompt"
           /\ UNCHANGED <<trIdx, track_uris, not_found_songs,
                          skip_all_not_found, search_result>>]_vars

\* C18 as stated: the answer n or N on a page without a continuation changes
\* nothing: no request is made and the prompt is shown again.
C18_NextWithoutContinuation ==
    [][(pc = "prompt" /\ lower(choice') = <<"n">>
            /\ search_result.tracks.next \in {"absent", None})
        => /\ pc' = "prompt"
           /\ UNCHANGED <<trIdx, search_result, searches>>]_vars

IsReport(c) == c.op = "report"

\* where the calls made for the playlist at hand stand, in every state
CallOrder ==
    /\ calls # <<>> =>
        /\ IsCreate(calls[1])
        /\ \A k \in 2..Len(calls) :
            \/ IsReport(calls[k]) /\ k = 2
            \/ IsAdd(calls[k]) /\ \A j \in (k + 1)..Len(calls) : IsAdd(calls[j])
    /\ (InTransfer \/ searches # <<>>) =>
        /\ calls = <<[op |-> "create", name |-> playlist_name]>>
        /\ spotify_playlist_id = Len(spotify)
        /\ spotify[spotify_playlist_id].items = <<>>
    /\ pc = "add" =>
        /\ trIdx = Len(tracks)
        /\ transferred # <<>>
        /\ Last(transferred).trackUris = track_uris
        /\ not_found_songs # <<>> => Len(calls) >= 2 /\ IsReport(calls[2])
    /\ AddCalls # <<>> => pc \in {"add", "fetch_tracks", "done"}

\* which step may make which call
CallStep ==
    /\ Len(searches') > Len(searches) =>
        /\ pc \in {"exact", "translit", "broad", "prompt"}
        /\ calls = <<[op |-> "create", name |-> playlist_name]>>
    /\ Len(AddCalls') > Len(AddCalls) =>
        /\ pc = "add"
        /\ trIdx = Len(tracks)
        /\ searches = <<>>
        /\ report' = report
    /\ report' # report => AddCalls = <<>> /\ pc = "report"

\* C19: for one playlist the create call comes first, then the searches and
\* prompts of every track, then the report, then the add-items calls: none
\* is made before the last track is done, so a run that breaks off in the
\* track loop leaves the playlist it created empty.
C19_CallOrder == []CallOrder /\ [][CallStep]_vars

\* C19, its case: create, report and add-items were made, in this order
C19_Witness ==
    /\ pc = "done"
    /\ Len(calls) = 3
    /\ IsCreate(calls[1]) /\ IsReport(calls[2]) /\ IsAdd(calls[3])
    /\ spotify[spotify_playlist_id].items = track_uris

\* C19, its other case: the run broke off in the track loop with a URI
\* collected and nothing added
C19_WitnessAborted ==
    /\ pc = "aborted"
    /\ track_uris # <<>>
    /\ spotify # <<>>
    /\ spotify[Len(spotify)].items = <<>>

====
